---- MODULE Spec2Model ----
(***************************************************************************)
(* Model of the English/Hindi/Marathi translation service:                 *)
(*   model/nmt_model.py       translation facade, model router, cache,     *)
(*                            transliteration and metric adapters          *)
(*   model/google_compare.py  comparison adapter                           *)
(*   scripts/evaluate.py      batch evaluator                              *)
(*                                                                         *)
(* A Python str is a sequence of characters (one-character strings); a     *)
(* model name or a message is a sequence of tokens.  Optional[x] is None   *)
(* or Some(x).  The pretrained models, the ITRANS engine, the scorers and  *)
(* the third-party service are free functions of their arguments.          *)
(***************************************************************************)
EXTENDS Integers, Sequences, FiniteSets, TLC

VARIABLES
    _pipelines,        \* nmt_model._pipelines: pair -> loaded handle
    environ,           \* os.environ, the MT_MODEL_<src>_<tgt> entries
    localfs,           \* what lies at <LOCAL_MODEL_ROOT>/<src>-<tgt>
    _NLTK_OK,          \* nmt_model._NLTK_OK
    _HAS_GOOGLETRANS,  \* google_compare._HAS_GOOGLETRANS
    _HAS_GOOGLE,       \* evaluate._HAS_GOOGLE
    eval_csv,          \* the evaluation output file (EVAL_CSV)
    loads,             \* history: successful loads per pair
    call,              \* the last operation: request, outcome, collaborators used
    hist_csv,          \* the history file (HIST_CSV)
    completed,         \* history: the rows of the translations the UI completed
    session            \* per UI session: where its Translate handler stands

vars == <<_pipelines, environ, localfs, _NLTK_OK, _HAS_GOOGLETRANS, _HAS_GOOGLE,
          eval_csv, loads, call, hist_csv, completed, session>>

\* ---------------------------------------------------------------- bounds
\* Longest source text enumerated by the facade specification.
MaxTextLen == 4

\* ------------------------------------------------------------- Optional
None == [some |-> FALSE]
Some(v) == [some |-> TRUE, val |-> v]

\* Python truthiness of an Optional[str]: None and "" are false.
Truthy(o) == o.some /\ o.val # <<>>

\* Python `a or b`.
PyOr(a, b) == IF Truthy(a) THEN a ELSE b

\* ---------------------------------------------------------------- str
Whitespace == {" ", "\t", "\n"}

\* The characters of the strip() argument ".,!?;:\"'()[]{}-".
Punctuation == {".", ",", "!", "?", ";", ":", "\"", "'", "(", ")", "[", "]", "{", "}", "-"}

UpperLetters == <<"A","B","C","D","E","F","G","H","I","J","K","L","M",
                  "N","O","P","Q","R","S","T","U","V","W","X","Y","Z">>

LowerLetters == <<"a","b","c","d","e","f","g","h","i","j","k","l","m",
                  "n","o","p","q","r","s","t","u","v","w","x","y","z">>

Range(s) == {s[i] : i \in DOMAIN s}

Digits == {"0","1","2","3","4","5","6","7","8","9"}

\* A Devanagari letter (a code point above 127).
DevaNa == "U+0928"

AsciiChars == Range(UpperLetters) \cup Range(LowerLetters) \cup Digits
              \cup Whitespace \cup Punctuation \cup {"_"}

\* str.isascii()
isascii(s) == \A i \in DOMAIN s : s[i] \in AsciiChars

LowerChar(c) ==
    IF c \in Range(UpperLetters)
    THEN LowerLetters[CHOOSE i \in DOMAIN UpperLetters : UpperLetters[i] = c]
    ELSE c

\* str.lower()
lower(s) == [i \in DOMAIN s |-> LowerChar(s[i])]

RECURSIVE lstrip(_, _)
lstrip(s, chars) ==
    IF s # <<>> /\ Head(s) \in chars THEN lstrip(Tail(s), chars) ELSE s

RECURSIVE rstrip(_, _)
rstrip(s, chars) ==
    IF s # <<>> /\ s[Len(s)] \in chars
    THEN rstrip(SubSeq(s, 1, Len(s) - 1), chars) ELSE s

\* str.strip(chars); strip() with no argument strips whitespace.
strip(s, chars) == rstrip(lstrip(s, chars), chars)

\* str.split(): the maximal runs of non-whitespace characters, in order.
RECURSIVE SplitFrom(_, _)
SplitFrom(s, cur) ==
    IF s = <<>> THEN (IF cur = <<>> THEN <<>> ELSE <<cur>>)
    ELSE IF Head(s) \in Whitespace
         THEN (IF cur = <<>> THEN <<>> ELSE <<cur>>) \o SplitFrom(Tail(s), <<>>)
         ELSE SplitFrom(Tail(s), Append(cur, Head(s)))

split(s) == SplitFrom(s, <<>>)

\* sep.join(parts)
RECURSIVE join(_, _)
join(sep, parts) ==
    IF parts = <<>> THEN <<>>
    ELSE IF Len(parts) = 1 THEN parts[1]
    ELSE parts[1] \o sep \o join(sep, Tail(parts))

\* `needle in s` for strings.
Contains(s, needle) ==
    \E i \in 1..(Len(s) - Len(needle) + 1) : SubSeq(s, i, i + Len(needle) - 1) = needle

\* ----------------------------------------------------------- languages
SUPPORTED_LANGUAGES == <<"English", "Hindi", "Marathi">>

LANG_CODE == [English |-> "en", Hindi |-> "hi", Marathi |-> "mr"]

Codes == {"en", "hi", "mr"}

\* The keys _get_pipeline is called with: ordered pairs of distinct codes.
Pairs == {p \in Codes \X Codes : p[1] # p[2]}

\* Mutant of MODEL_MAP: the table lacks the English-to-Marathi entry.
MODEL_MAPWithoutEnMr ==
    [p \in {<<"en","hi">>, <<"hi","en">>, <<"mr","en">>} |->
        <<"Helsinki-NLP/opus-mt-", p[1], "-", p[2]>>]

MODEL_MAP ==
    [p \in {<<"en","hi">>, <<"hi","en">>, <<"en","mr">>, <<"mr","en">>} |->
        <<"Helsinki-NLP/opus-mt-", p[1], "-", p[2]>>]

\* MODEL_MAP.get(key) and MODEL_MAP.get(key, default)
MODEL_MAP_get(key) == IF key \in DOMAIN MODEL_MAP THEN Some(MODEL_MAP[key]) ELSE None

\* --------------------------------------------------------- model router
\* os.environ.get(f"MT_MODEL_{src}_{tgt}")
_override_from_env(env, src, tgt) == env[<<src, tgt>>]

ARTIFACT_FILES == {"config.json", "pytorch_model.bin", "model.safetensors"}

\* str(root / f"{src}-{tgt}")
LocalPath(src, tgt) == <<"<LOCAL_MODEL_ROOT>/", src, "-", tgt>>

_local_override_path(fs, src, tgt) ==
    LET path == fs[<<src, tgt>>]
    IN  IF path.exists /\ path.is_dir /\ (path.files \cap ARTIFACT_FILES) # {}
        THEN Some(LocalPath(src, tgt))
        ELSE None

\* f"translation_{src}_to_{tgt}"
TaskName(src, tgt) == <<"translation_", src, "_to_", tgt>>

\* The pipeline object built from a model location or a task name.
Handle(name) == [model |-> name]

\* nlp(text)[0]["translation_text"]: the model's output for an input.
Infer(nlp, text) == <<"[">> \o nlp.model \o <<"]">> \o text

\* A "get_pipeline" event: the router is asked for `key` and returns `name`.
RouterEvent(key, hit, name) == <<[ev |-> "get_pipeline", key |-> key, hit |-> hit, name |-> name]>>

\* Mutant of ResolveName: the local directory is preferred to the override.
ResolveNameLocalFirst(env, fs, src, tgt) ==
    PyOr(PyOr(_local_override_path(fs, src, tgt), _override_from_env(env, src, tgt)),
         MODEL_MAP_get(<<src, tgt>>))

\* Lines 72-74: the model location resolved for a key that is not cached.
ResolveName(env, fs, src, tgt) ==
    PyOr(PyOr(_override_from_env(env, src, tgt), _local_override_path(fs, src, tgt)),
         MODEL_MAP_get(<<src, tgt>>))

\* Lines 75-85: the model (or, with nothing mapped, the generic task) is loaded
\* and stored in the cache.
LoadAndStore(cache, key, name) ==
    [ok |-> TRUE, nlp |-> Handle(name), name |-> name,
     cache |-> [cache EXCEPT ![key] = Some(Handle(name))],
     trace |-> RouterEvent(key, FALSE, name) \o <<[ev |-> "load", key |-> key, name |-> name]>>]

\* Line 71: the name returned on a cache hit.
CachedName(key) == IF key \in DOMAIN MODEL_MAP THEN MODEL_MAP[key] ELSE <<"custom">>

\* Mutant of _get_pipeline: the cache is not consulted.
_get_pipelineNoCache(cache, env, fs, bad, src, tgt) ==
    IF <<src, tgt>> \in bad
    THEN [ok |-> FALSE, nlp |-> Handle(<<>>), name |-> <<>>, cache |-> cache,
          trace |-> RouterEvent(<<src, tgt>>, FALSE, <<>>)]
    ELSE IF Truthy(ResolveName(env, fs, src, tgt))
    THEN LoadAndStore(cache, <<src, tgt>>, ResolveName(env, fs, src, tgt).val)
    ELSE LoadAndStore(cache, <<src, tgt>>, TaskName(src, tgt))

\* _get_pipeline(src, tgt) on cache `cache`; `bad` are the keys whose model
\* cannot be loaded (from_pretrained / pipeline raises).
\* Returns [ok, nlp, name, cache, trace].
_get_pipeline(cache, env, fs, bad, src, tgt) ==
    IF cache[<<src, tgt>>].some
    THEN [ok |-> TRUE, nlp |-> cache[<<src, tgt>>].val, name |-> CachedName(<<src, tgt>>),
          cache |-> cache, trace |-> RouterEvent(<<src, tgt>>, TRUE, CachedName(<<src, tgt>>))]
    ELSE IF <<src, tgt>> \in bad
    THEN [ok |-> FALSE, nlp |-> Handle(<<>>), name |-> <<>>, cache |-> cache,
          trace |-> RouterEvent(<<src, tgt>>, FALSE, <<>>)]
    ELSE IF Truthy(ResolveName(env, fs, src, tgt))
    THEN LoadAndStore(cache, <<src, tgt>>, ResolveName(env, fs, src, tgt).val)
    ELSE LoadAndStore(cache, <<src, tgt>>, TaskName(src, tgt))

\* An "nlp" event: handle `nlp` is invoked on `input`.
Invoked(nlp, input) == <<[ev |-> "nlp", nlp |-> nlp, input |-> input]>>

\* The outcome of a model translation that could not load its model.
LoadFailed(cache, trace) ==
    [ok |-> FALSE, translated |-> <<>>, models_used |-> <<>>,
     cache |-> cache, trace |-> trace]

\* Mutant of PivotSecondHop: when the second model cannot be loaded the first
\* hop's output is returned as the translation.
PivotSecondHopPartial(g2, tmp, name1, trace1) ==
    IF ~g2.ok
    THEN [ok |-> TRUE, translated |-> tmp, models_used |-> <<name1>>,
          cache |-> g2.cache, trace |-> trace1 \o g2.trace]
    ELSE [ok |-> TRUE, translated |-> Infer(g2.nlp, tmp),
          models_used |-> <<name1, g2.name>>, cache |-> g2.cache,
          trace |-> trace1 \o g2.trace \o Invoked(g2.nlp, tmp)]

\* Lines 95-97: the second hop `g2` is run on the first hop's output `tmp`.
PivotSecondHop(g2, tmp, name1, trace1) ==
    IF ~g2.ok THEN LoadFailed(g2.cache, trace1 \o g2.trace)
    ELSE [ok |-> TRUE, translated |-> Infer(g2.nlp, tmp),
          models_used |-> <<name1, g2.name>>, cache |-> g2.cache,
          trace |-> trace1 \o g2.trace \o Invoked(g2.nlp, tmp)]

\* Mutant of PivotFirstHop: the second hop is run on the input text.
PivotFirstHopOnText(g1, env, fs, bad, text, mid, tgt) ==
    IF ~g1.ok THEN LoadFailed(g1.cache, g1.trace)
    ELSE PivotSecondHop(_get_pipeline(g1.cache, env, fs, bad, mid, tgt),
                        text, g1.name, g1.trace \o Invoked(g1.nlp, text))

\* Lines 91-94: the first hop `g1` is run on the text, then the second is routed.
PivotFirstHop(g1, env, fs, bad, text, mid, tgt) ==
    IF ~g1.ok THEN LoadFailed(g1.cache, g1.trace)
    ELSE PivotSecondHop(_get_pipeline(g1.cache, env, fs, bad, mid, tgt),
                        Infer(g1.nlp, text), g1.name,
                        g1.trace \o Invoked(g1.nlp, text))

\* _pivot_translate(text, src, mid, tgt).
\* Returns [ok, translated, models_used, cache, trace].
_pivot_translate(cache, env, fs, bad, text, src, mid, tgt) ==
    PivotFirstHop(_get_pipeline(cache, env, fs, bad, src, mid), env, fs, bad, text, mid, tgt)

\* ------------------------------------------------ transliteration adapter
WordChars == Range(UpperLetters) \cup Range(LowerLetters) \cup Digits \cup {"_"}

namastey == <<"n","a","m","a","s","t","e","y">>

namaste == <<"n","a","m","a","s","t","e">>

\* re.sub(r"\bnamastey\b", "namaste", t) from position i on.
RECURSIVE SubNamastey(_, _)
SubNamastey(t, i) ==
    IF i > Len(t) THEN <<>>
    ELSE IF /\ i + Len(namastey) - 1 <= Len(t)
            /\ SubSeq(t, i, i + Len(namastey) - 1) = namastey
            /\ (i = 1 \/ t[i - 1] \notin WordChars)
            /\ (i + Len(namastey) > Len(t) \/ t[i + Len(namastey)] \notin WordChars)
         THEN namaste \o SubNamastey(t, i + Len(namastey))
         ELSE <<t[i]>> \o SubNamastey(t, i + 1)

_normalize_for_transliteration(text) == SubNamastey(lower(strip(text, Whitespace)), 1)

\* indic_transliteration's transliterate(norm, ITRANS, DEVANAGARI).
transliterate(norm) == <<"[ITRANS->DEVANAGARI]">> \o norm

transliterate_english_to_script(text, target_lang) ==
    LET norm == _normalize_for_transliteration(text)
    IN  IF target_lang = "Hindi" THEN transliterate(norm)
        ELSE IF target_lang = "Marathi" THEN transliterate(norm)
        ELSE norm

_ROMANIZED_HINTS == {
    <<"n","a","m","a","s","t","e">>,
    <<"n","a","m","a","s","t","e","y">>,
    <<"n","a","m","a","s","k","a","r">>,
    <<"s","h","u","k","r","i","y","a">>,
    <<"d","h","a","n","y","a","v","a","d">>,
    <<"p","r","a","n","a","m">>,
    <<"k","r","i","p","y","a">>,
    <<"m","a","a","f">>,
    <<"s","a","c","h">>,
    <<"d","o","s","t">>,
    <<"p","y","a","a","r">>,
    <<"p","y","a","r">>,
    <<"d","i","l">>,
    <<"s","a","b">>,
    <<"b","h","a","i">>,
    <<"b","e","h","e","n">>,
    <<"p","i","t","a">>,
    <<"m","a","a">>,
    <<"m","a","t","r","a">>,
    <<"a","a","p">>,
    <<"h","u","m">>
    }

\* -------------------------------------------------------- metric adapter
\* The scorers: sacrebleu BLEU and TER, nltk METEOR (floats).
BleuScore(hypothesis, reference) == IF hypothesis = reference THEN 100 ELSE 0

TerScore(hypothesis, reference) == IF hypothesis = reference THEN 0 ELSE 100

MeteorScore(hypothesis, reference) == IF hypothesis = reference THEN 1 ELSE 0

NoMetrics == [bleu |-> None, ter |-> None, meteor |-> None]

\* Mutant of BlankReference: a whitespace-only reference counts as a reference.
BlankReferenceNoStrip(reference) == ~Truthy(reference)

\* `not reference or not reference.strip()` for an Optional[str].
BlankReference(reference) ==
    ~Truthy(reference) \/ strip(reference.val, Whitespace) = <<>>

\* Mutant of evaluate_translation: METEOR is scored whether or not nltk was
\* imported.
evaluate_translationNoGuard(hypothesis, reference, nltk_ok, meteor_raises) ==
    IF BlankReference(reference)
    THEN [metrics |-> NoMetrics, trace |-> <<[ev |-> "evaluate"]>>]
    ELSE [metrics |->
            [bleu |-> Some(BleuScore(hypothesis, reference.val)),
             ter |-> Some(TerScore(hypothesis, reference.val)),
             meteor |-> IF ~meteor_raises
                        THEN Some(MeteorScore(hypothesis, reference.val))
                        ELSE None],
          trace |-> <<[ev |-> "evaluate"], [ev |-> "bleu"], [ev |-> "ter"], [ev |-> "meteor"]>>]

\* evaluate_translation(hypothesis, reference); `nltk_ok` is _NLTK_OK and
\* `meteor_raises` tells whether meteor_score raises on this call.
\* Returns [metrics, trace].
evaluate_translation(hypothesis, reference, nltk_ok, meteor_raises) ==
    IF BlankReference(reference)
    THEN [metrics |-> NoMetrics, trace |-> <<[ev |-> "evaluate"]>>]
    ELSE [metrics |->
            [bleu |-> Some(BleuScore(hypothesis, reference.val)),
             ter |-> Some(TerScore(hypothesis, reference.val)),
             meteor |-> IF nltk_ok /\ ~meteor_raises
                        THEN Some(MeteorScore(hypothesis, reference.val))
                        ELSE None],
          trace |-> <<[ev |-> "evaluate"], [ev |-> "bleu"], [ev |-> "ter"]>>
                    \o (IF nltk_ok THEN <<[ev |-> "meteor"]>> ELSE <<>>)]

\* ----------------------------------------------------- translation facade
\* Mutant of HintTokens: the tokens are not lower-cased.
HintTokensNoLower(text) ==
    LET parts == split(text)
    IN  [i \in DOMAIN parts |-> strip(parts[i], Punctuation)]

\* [t.strip(".,!?;:\"'()[]{}-").lower() for t in text.split()]
HintTokens(text) ==
    LET parts == split(text)
    IN  [i \in DOMAIN parts |-> lower(strip(parts[i], Punctuation))]

\* any(t in _ROMANIZED_HINTS for t in tokens)
looks_romanized(text) == Range(HintTokens(text)) \cap _ROMANIZED_HINTS # {}

\* The condition of lines 162-165: the transliteration branch is taken.
UsesTransliteration(text, source_lang, target_lang, use_transliteration) ==
    /\ source_lang = "English"
    /\ target_lang \in {"Hindi", "Marathi"}
    /\ isascii(text)
    /\ (use_transliteration \/ looks_romanized(text))

\* Lines 180-182: the directly routed model `g` is run on the text.
DirectTranslate(g, text) ==
    IF ~g.ok THEN LoadFailed(g.cache, g.trace)
    ELSE [ok |-> TRUE, translated |-> Infer(g.nlp, text), models_used |-> <<g.name>>,
          cache |-> g.cache, trace |-> g.trace \o Invoked(g.nlp, text)]

\* Lines 177-185: direct model, or pivot via English.
\* Returns [ok, translated, models_used, cache, trace].
ModelTranslate(cache, env, fs, bad, text, src, tgt) ==
    IF \/ <<src, tgt>> \in DOMAIN MODEL_MAP
       \/ Truthy(_override_from_env(env, src, tgt))
       \/ Truthy(_local_override_path(fs, src, tgt))
    THEN DirectTranslate(_get_pipeline(cache, env, fs, bad, src, tgt), text)
    ELSE _pivot_translate(cache, env, fs, bad, text, src, "en", tgt)

Return(translation, model_name, metrics) ==
    [kind |-> "return", translation |-> translation, model_name |-> model_name,
     metrics |-> metrics]

Raise(exc) == [kind |-> "raise", exc |-> exc]

\* Mutant of IsBlank: the text is not stripped before the test.
IsBlankNoStrip(text) == text = <<>>

\* Line 151: `not text.strip()`.
IsBlank(text) == strip(text, Whitespace) = <<>>

\* Line 152: the result for blank text.
EmptyResult == Return(<<>>, None, NoMetrics)

\* Line 153: a language outside SUPPORTED_LANGUAGES.
Unsupported(source_lang, target_lang) ==
    \/ source_lang \notin Range(SUPPORTED_LANGUAGES)
    \/ target_lang \notin Range(SUPPORTED_LANGUAGES)

\* Mutant of SameLanguageResult: the text is returned stripped.
SameLanguageResultStripped(text) == Return(strip(text, Whitespace), None, NoMetrics)

\* Line 156: the result when source and target are the same language.
SameLanguageResult(text) == Return(text, None, NoMetrics)

\* " + ".join(models_used)
ModelNames(models_used) == join(<<" + ">>, models_used)

\* Line 188: the result built from the translation and the metrics `ev`.
Result(translated, models_used, ev, cache, trace) ==
    [out |-> Return(translated, Some(ModelNames(models_used)), ev.metrics),
     cache |-> cache, trace |-> trace \o ev.trace]

\* Lines 187-188 after a model translation `m`.
Scored(m, reference, nltk_ok, meteor_raises) ==
    IF ~m.ok THEN [out |-> Raise("LoadError"), cache |-> m.cache, trace |-> m.trace]
    ELSE Result(m.translated, m.models_used,
                evaluate_translation(m.translated, reference, nltk_ok, meteor_raises),
                m.cache, m.trace)

\* Lines 166-167 and 187-188: the transliteration branch.
Transliterated(translated, text, reference, cache, nltk_ok, meteor_raises) ==
    Result(translated, <<<<"transliteration", "(ITRANS)">>>>,
           evaluate_translation(translated, reference, nltk_ok, meteor_raises),
           cache, <<[ev |-> "transliterate", input |-> text]>>)

\* Lines 158-188: distinct supported languages, non-blank text.
Routed(text, source_lang, target_lang, use_transliteration, reference, cache, env, fs, bad, nltk_ok, meteor_raises) ==
    IF UsesTransliteration(text, source_lang, target_lang, use_transliteration)
    THEN Transliterated(transliterate_english_to_script(text, target_lang), text,
                        reference, cache, nltk_ok, meteor_raises)
    ELSE Scored(ModelTranslate(cache, env, fs, bad, text,
                               LANG_CODE[source_lang], LANG_CODE[target_lang]),
                reference, nltk_ok, meteor_raises)

\* Mutant of Validated: the same-language test comes before the language check.
ValidatedSameFirst(text, source_lang, target_lang, use_transliteration, reference, cache, env, fs, bad, nltk_ok, meteor_raises) ==
    IF source_lang = target_lang
    THEN [out |-> SameLanguageResult(text), cache |-> cache, trace |-> <<>>]
    ELSE IF Unsupported(source_lang, target_lang)
    THEN [out |-> Raise("ValueError"), cache |-> cache, trace |-> <<>>]
    ELSE Routed(text, source_lang, target_lang, use_transliteration, reference,
                cache, env, fs, bad, nltk_ok, meteor_raises)

\* Lines 153-188: the checks on the languages, in the order of the code.
Validated(text, source_lang, target_lang, use_transliteration, reference, cache, env, fs, bad, nltk_ok, meteor_raises) ==
    IF Unsupported(source_lang, target_lang)
    THEN [out |-> Raise("ValueError"), cache |-> cache, trace |-> <<>>]
    ELSE IF source_lang = target_lang
    THEN [out |-> SameLanguageResult(text), cache |-> cache, trace |-> <<>>]
    ELSE Routed(text, source_lang, target_lang, use_transliteration, reference,
                cache, env, fs, bad, nltk_ok, meteor_raises)

\* translate_text(text, source_lang, target_lang, use_transliteration, reference)
\* run on cache `cache`.  Returns [out, cache, trace].
translate_text(text, source_lang, target_lang, use_transliteration, reference, cache, env, fs, bad, nltk_ok, meteor_raises) ==
    IF IsBlank(text)
    THEN [out |-> EmptyResult, cache |-> cache, trace |-> <<>>]
    ELSE Validated(text, source_lang, target_lang, use_transliteration, reference,
                   cache, env, fs, bad, nltk_ok, meteor_raises)

\* ---------------------------------------------------- comparison adapter
\* google_compare.LANG_CODE
GOOGLE_LANG_CODE == [English |-> "en", Hindi |-> "hi", Marathi |-> "mr"]

\* Translator().translate(text, src=src, dest=tgt).text
GoogleOut(text, src, tgt) == <<"[google ", src, ">", tgt, "]">> \o text

GoogleRaised(message, has) == [raised |-> TRUE, value |-> message, has |-> has]

\* Mutant of translate_with_google: a failed request returns None's text
\* instead of raising RuntimeError.
translate_with_googleNoRaise(text, source_lang, target_lang, has, import_ok, request_ok) ==
    IF ~has /\ ~import_ok
    THEN GoogleRaised(<<"googletrans unavailable: ", "ImportError">>, FALSE)
    ELSE IF source_lang \notin DOMAIN GOOGLE_LANG_CODE
    THEN GoogleRaised(<<"'", source_lang, "'">>, TRUE)
    ELSE IF target_lang \notin DOMAIN GOOGLE_LANG_CODE
    THEN GoogleRaised(<<"'", target_lang, "'">>, TRUE)
    ELSE IF ~request_ok
    THEN [raised |-> FALSE, value |-> <<>>, has |-> TRUE]
    ELSE [raised |-> FALSE, has |-> TRUE,
          value |-> GoogleOut(text, GOOGLE_LANG_CODE[source_lang],
                              GOOGLE_LANG_CODE[target_lang])]

\* translate_with_google(text, source_lang, target_lang); `has` is
\* _HAS_GOOGLETRANS, `import_ok` tells whether the lazy import succeeds and
\* `request_ok` whether the request does.  Returns [raised, value, has]: the
\* translation or the exception's message, and _HAS_GOOGLETRANS afterwards.
translate_with_google(text, source_lang, target_lang, has, import_ok, request_ok) ==
    IF ~has /\ ~import_ok
    THEN GoogleRaised(<<"googletrans unavailable: ", "ImportError">>, FALSE)
    ELSE IF source_lang \notin DOMAIN GOOGLE_LANG_CODE
    THEN GoogleRaised(<<"'", source_lang, "'">>, TRUE)
    ELSE IF target_lang \notin DOMAIN GOOGLE_LANG_CODE
    THEN GoogleRaised(<<"'", target_lang, "'">>, TRUE)
    ELSE IF ~request_ok
    THEN GoogleRaised(<<"googletrans request failed: ", "error">>, TRUE)
    ELSE [raised |-> FALSE, has |-> TRUE,
          value |-> GoogleOut(text, GOOGLE_LANG_CODE[source_lang],
                              GOOGLE_LANG_CODE[target_lang])]

\* Lines 52-59: the mapping built from the service's outcome `g`.
Compared(g, our_translation) ==
    [result |-> [ours |-> our_translation,
                 google |-> IF g.raised
                            THEN <<"Google Translate unavailable: ">> \o g.value
                            ELSE g.value],
     has |-> g.has]

\* compare_to_google(text, source_lang, target_lang, our_translation).
\* Returns [result, has].
compare_to_google(text, source_lang, target_lang, our_translation, has, import_ok, request_ok) ==
    Compared(translate_with_google(text, source_lang, target_lang, has, import_ok, request_ok),
             our_translation)

\* -------------------------------------------------------- batch evaluator
\* g.lower().startswith("unavailable") or
\* g.lower().startswith("google translate unavailable")
StartsUnavailable(g) ==
    /\ g # <<>>
    /\ g[1] \in {"unavailable", "unavailable: ", "Google Translate unavailable: "}

\* Lines 62-69 when _HAS_GOOGLE: the service's outcome `t` as the string g.
FromService(t) ==
    [g |-> IF t.raised THEN <<"unavailable: ">> \o t.value ELSE t.value, has |-> t.has]

\* Lines 62-69: the string g of row i.  `o` are the run's circumstances.
GoogleForRow(row, i, has, o) ==
    IF ~o.has_google THEN [g |-> <<"unavailable">>, has |-> has]
    ELSE FromService(translate_with_google(row.src_text, row.source_lang, row.target_lang,
                                           has, o.import_ok, i \notin o.failing))

\* Lines 86-100: the output record of a row.
OutputRow(row, out, g) ==
    [source_lang |-> row.source_lang, target_lang |-> row.target_lang,
     src_text |-> row.src_text, ref_text |-> row.ref_text,
     our_translation |-> out.translation, google_translation |-> g,
     bleu |-> out.metrics.bleu, ter |-> out.metrics.ter, meteor |-> out.metrics.meteor,
     google_bleu |-> None, google_ter |-> None, google_meteor |-> None]

\* Lines 62-100: the row is completed with the service's string `gr`.
AfterGoogle(gr, r, row, st) ==
    [st EXCEPT !.outputs = Append(@, OutputRow(row, r.out, gr.g)),
               !.cache = r.cache, !.has = gr.has]

\* Lines 49-100: translate_text ended as `r` for row i.
AfterTranslate(r, row, i, st, o) ==
    IF r.out.kind = "raise"
    THEN [st EXCEPT !.ok = FALSE, !.raised_by = "translate_text", !.cache = r.cache]
    ELSE AfterGoogle(GoogleForRow(row, i, st.has, o), r, row, st)

\* Lines 48-100: one iteration of the loop over the rows.
EvalRow(row, i, st, o) ==
    AfterTranslate(translate_text(row.src_text, row.source_lang, row.target_lang, TRUE,
                                  Some(row.ref_text), st.cache, o.env, o.fs, o.bad,
                                  o.nltk_ok, o.meteor_raises),
                   row, i, st, o)

\* Lines 48-100: the loop from row i on; it ends when a row raises.
RECURSIVE EvalRows(_, _, _, _)
EvalRows(rows, i, st, o) ==
    IF i > Len(rows) \/ ~st.ok THEN st
    ELSE EvalRows(rows, i + 1, EvalRow(rows[i], i, st, o), o)

\* Line 104: any(r[0].strip() for r in refs)
has_any_ref(outputs) ==
    \E i \in DOMAIN outputs : strip(outputs[i].ref_text, Whitespace) # <<>>

\* Line 70 and 81-83: the Google hypothesis of a row, "" when unavailable.
GoogleHyp(g) == IF StartsUnavailable(g) THEN <<>> ELSE g

\* Lines 120-131: the row as written, with its Google metrics.
WrittenRow(orow, any_ref, o) ==
    IF /\ any_ref
       /\ strip(orow.ref_text, Whitespace) # <<>>
       /\ strip(GoogleHyp(orow.google_translation), Whitespace) # <<>>
    THEN [orow EXCEPT
            !.google_bleu = Some(BleuScore(GoogleHyp(orow.google_translation), orow.ref_text)),
            !.google_ter = Some(TerScore(GoogleHyp(orow.google_translation), orow.ref_text)),
            !.google_meteor =
                IF o.nltk_ok /\ ~o.meteor_raises
                THEN Some(MeteorScore(GoogleHyp(orow.google_translation), orow.ref_text))
                ELSE None]
    ELSE orow

\* Lines 102-131: the corpus scores are computed, then the file is written.
Finish(st, o) ==
    IF ~st.ok THEN st
    ELSE IF has_any_ref(st.outputs) /\ o.scorer_raises
    THEN [st EXCEPT !.ok = FALSE, !.raised_by = "corpus scorer"]
    ELSE [st EXCEPT !.outputs =
            [i \in DOMAIN st.outputs |-> WrittenRow(st.outputs[i], has_any_ref(st.outputs), o)]]

\* Line 116: the columns written when there is no output row.
EVAL_FIELDNAMES ==
    {"source_lang", "target_lang", "src_text", "ref_text", "our_translation",
     "google_translation", "bleu", "ter", "meteor", "google_bleu", "google_ter",
     "google_meteor"}

\* Line 116: list(outputs[0].keys()) if outputs else the twelve columns.
Fieldnames(outputs) == IF outputs # <<>> THEN DOMAIN outputs[1] ELSE EVAL_FIELDNAMES

\* Lines 115-131: the file as written, the header and a line per output row.
WrittenFile(outputs) == [fieldnames |-> Fieldnames(outputs), rows |-> outputs]

\* main(in_path, out_path) on the rows read from in_path.
\* Returns [ok, raised_by, outputs, cache, has].
evaluate_main(rows, cache, has, o) ==
    Finish(EvalRows(rows, 1, [ok |-> TRUE, raised_by |-> "", outputs |-> <<>>,
                              cache |-> cache, has |-> has], o), o)

\* ------------------------------------------------------------ history file
\* The history file is a sequence of lines, each giving the five columns as
\* strings.  A data frame is a sequence of rows of cells; a cell is a string
\* or NaN (None).

\* The strings pandas.read_csv reads as NaN (keep_default_na).
NA_VALUES ==
    {<<>>,
     <<"#","N","/","A">>,
     <<"#","N","/","A"," ","N","/","A">>,
     <<"#","N","A">>,
     <<"-","1",".","#","I","N","D">>,
     <<"-","1",".","#","Q","N","A","N">>,
     <<"-","N","a","N">>,
     <<"-","n","a","n">>,
     <<"1",".","#","I","N","D">>,
     <<"1",".","#","Q","N","A","N">>,
     <<"<","N","A",">">>,
     <<"N","/","A">>,
     <<"N","A">>,
     <<"N","U","L","L">>,
     <<"N","a","N">>,
     <<"N","o","n","e">>,
     <<"n","/","a">>,
     <<"n","a","n">>,
     <<"n","u","l","l">>}

\* read_csv on one field.  The texts enumerated hold no digits, so no column
\* is read as numbers.
read_cell(field) == IF field \in NA_VALUES THEN None ELSE Some(field)

\* read_csv on one line; the language columns hold names of the select boxes.
read_line(line) ==
    [source_lang |-> Some(line.source_lang), target_lang |-> Some(line.target_lang),
     src_text |-> read_cell(line.src_text), ref_text |-> read_cell(line.ref_text),
     our_translation |-> read_cell(line.our_translation)]

\* Line 158: pd.read_csv(HIST_CSV)
read_csv(file) == [i \in DOMAIN file |-> read_line(file[i])]

\* to_csv on one cell: NaN is written as the empty field (na_rep='').
write_cell(cell) == IF cell.some THEN cell.val ELSE <<>>

\* Lines 160, 162: DataFrame.to_csv(HIST_CSV, index=False)
to_csv(df) == [i \in DOMAIN df |-> [c \in DOMAIN df[i] |-> write_cell(df[i][c])]]

\* Lines 148-156: the one-row frame of a completed translation; `w` are the
\* values of the widgets.
df_row(w, translation) ==
    <<[source_lang |-> Some(w.source_lang), target_lang |-> Some(w.target_lang),
       src_text |-> Some(w.input_text),
       ref_text |-> IF w.ref_text # <<>> THEN Some(w.ref_text) ELSE Some(<<>>),
       our_translation |-> Some(translation)]>>

\* Line 159: pd.concat([df_hist, df_row], ignore_index=True)
concat(df_hist, row) == df_hist \o row

\* Lines 157-162: the history file after the row is appended.
AppendHistory(hist, row) ==
    IF hist.some THEN Some(to_csv(concat(read_csv(hist.val), row)))
    ELSE Some(to_csv(row))

\* evaluate.py lines 36-39: the rows csv.DictReader yields for a history file.
HistoryInput(file) ==
    [i \in DOMAIN file |->
        [source_lang |-> file[i].source_lang, target_lang |-> file[i].target_lang,
         src_text |-> file[i].src_text, ref_text |-> file[i].ref_text]]

\* ------------------------------------------------------------ the process
\* The UI sessions served by the process.
Sessions == {1, 2}

\* A session whose Translate handler is not running.
Idle == [pc |-> "idle"]

\* No history file, no translation completed, no handler running.
NoUI ==
    /\ hist_csv = None
    /\ completed = <<>>
    /\ session = [s \in Sessions |-> Idle]

Keys == Codes \X Codes

AbsentPath == [exists |-> FALSE, is_dir |-> FALSE, files |-> {}]

EmptyCache == [k \in Keys |-> None]

\* Language names a caller may pass: the supported ones and another.
LanguageNames == Range(SUPPORTED_LANGUAGES) \cup {"Spanish"}

\* Characters of the enumerated texts: letters of the hint "aap", an upper-case
\* letter, whitespace, punctuation, a non-ASCII letter.
TextAlphabet == {"a", "p", "A", " ", "!", DevaNa}

\* All strings over `alphabet` of length at most n.
StringsUpTo(alphabet, n) == UNION {[1..k -> alphabet] : k \in 0..n}

References == {None, Some(<<" ">>), Some(<<DevaNa>>)}

NoCall == [op |-> "none"]

\* The events of a trace that are named `ev`.
Events(trace, ev) == {i \in DOMAIN trace : trace[i].ev = ev}

\* Successful loads of `key` in a trace.
LoadsOf(trace, key) == Cardinality({i \in Events(trace, "load") : trace[i].key = key})

\* The process state after a call of translate_text that ended as `r`.
Called(r, request) ==
    /\ _pipelines' = r.cache
    /\ loads' = [k \in Keys |-> loads[k] + LoadsOf(r.trace, k)]
    /\ call' = [op |-> "translate", text |-> request.text,
                source_lang |-> request.source_lang,
                target_lang |-> request.target_lang,
                use_transliteration |-> request.use_transliteration,
                reference |-> request.reference,
                meteor_raises |-> request.meteor_raises, bad |-> request.bad,
                out |-> r.out, trace |-> r.trace, before |-> _pipelines]
    /\ UNCHANGED <<environ, localfs, _NLTK_OK, _HAS_GOOGLETRANS, _HAS_GOOGLE, eval_csv,
                   hist_csv, completed, session>>

\* One call of translate_text by the process; the whole call is one step.
TranslateCall(text, source_lang, target_lang, use_transliteration, reference, bad, meteor_raises) ==
    Called(translate_text(text, source_lang, target_lang, use_transliteration, reference,
                          _pipelines, environ, localfs, bad, _NLTK_OK, meteor_raises),
           [text |-> text, source_lang |-> source_lang, target_lang |-> target_lang,
            use_transliteration |-> use_transliteration, reference |-> reference,
            meteor_raises |-> meteor_raises, bad |-> bad])

\* ---------------------------------------------- facade specification
\* A fresh process makes one call of translate_text with any arguments.
InitFacade ==
    /\ _pipelines = EmptyCache
    /\ environ = [k \in Keys |-> None]
    /\ localfs = [k \in Keys |-> AbsentPath]
    /\ _NLTK_OK \in BOOLEAN
    /\ _HAS_GOOGLETRANS = TRUE
    /\ _HAS_GOOGLE = TRUE
    /\ eval_csv = None
    /\ loads = [k \in Keys |-> 0]
    /\ call = NoCall
    /\ NoUI

FacadeCall ==
    /\ call = NoCall
    /\ \E text \in StringsUpTo(TextAlphabet, MaxTextLen),
          source_lang \in LanguageNames, target_lang \in LanguageNames,
          use_transliteration \in BOOLEAN, reference \in References :
            TranslateCall(text, source_lang, target_lang, use_transliteration,
                          reference, {}, FALSE)

NextFacade == FacadeCall

SpecFacade == InitFacade /\ [][NextFacade]_vars

\* ------------------------------------------- router specification (Spec)
\* A process makes translate_text calls one after another while the
\* environment overrides and the local model directories may change.

\* The pairs whose override changes: one with a table entry and one without.
OverrideKeys == {<<"en", "hi">>, <<"hi", "mr">>}

\* The pair whose local model directory changes.
LocalKeys == {<<"en", "hi">>}

\* Values of MT_MODEL_<src>_<tgt>: unset, set to "", set to a model location.
EnvValues(k) == {None, Some(<<>>), Some(<<"/finetuned/", k[1], "_", k[2]>>)}

\* What may lie at <LOCAL_MODEL_ROOT>/<src>-<tgt>: nothing, a directory
\* without a model artifact, a directory with one.
PathStates ==
    {AbsentPath,
     [exists |-> TRUE, is_dir |-> TRUE, files |-> {"README.md"}],
     [exists |-> TRUE, is_dir |-> TRUE, files |-> {"config.json", "README.md"}]}

\* The keys a call for (src, tgt) can route: the pair and the two pivot hops.
CallKeys(src, tgt) == {<<src, tgt>>, <<src, "en">>, <<"en", tgt>>} \cap Pairs

\* The loads that fail during one call: none, or those of one key that is not
\* cached (a cached key is not loaded again).
BadChoices(source_lang, target_lang) ==
    {{}} \cup {{k} : k \in {c \in CallKeys(LANG_CODE[source_lang], LANG_CODE[target_lang]) :
                                ~_pipelines[c].some}}

RouterText == <<"p", "a">>

Init ==
    /\ _pipelines = EmptyCache
    /\ environ = [k \in Keys |-> None]
    /\ localfs = [k \in Keys |-> AbsentPath]
    /\ _NLTK_OK = TRUE
    /\ _HAS_GOOGLETRANS = TRUE
    /\ _HAS_GOOGLE = TRUE
    /\ eval_csv = None
    /\ loads = [k \in Keys |-> 0]
    /\ call = NoCall
    /\ NoUI

Translate ==
    \E source_lang \in Range(SUPPORTED_LANGUAGES), target_lang \in Range(SUPPORTED_LANGUAGES),
       use_transliteration \in BOOLEAN :
        \E bad \in BadChoices(source_lang, target_lang) :
            TranslateCall(RouterText, source_lang, target_lang, use_transliteration,
                          None, bad, FALSE)

\* os.environ[f"MT_MODEL_{src}_{tgt}"] is set, changed or removed.
SetEnv ==
    \E k \in OverrideKeys : \E v \in EnvValues(k) :
        /\ environ[k] # v
        /\ environ' = [environ EXCEPT ![k] = v]
        /\ call' = [op |-> "setenv"]
        /\ UNCHANGED <<_pipelines, localfs, _NLTK_OK, _HAS_GOOGLETRANS, _HAS_GOOGLE,
                       eval_csv, loads,
                   hist_csv, completed, session>>

\* The directory <LOCAL_MODEL_ROOT>/<src>-<tgt> is created, filled or removed.
SetLocal ==
    \E k \in LocalKeys : \E p \in PathStates :
        /\ localfs[k] # p
        /\ localfs' = [localfs EXCEPT ![k] = p]
        /\ call' = [op |-> "setlocal"]
        /\ UNCHANGED <<_pipelines, environ, _NLTK_OK, _HAS_GOOGLETRANS, _HAS_GOOGLE,
                       eval_csv, loads,
                   hist_csv, completed, session>>

Next == Translate \/ SetEnv \/ SetLocal

Spec == Init /\ [][Next]_vars

\* -------------------------------------------- metric specification
\* A fresh process, with or without nltk, makes one call of
\* evaluate_translation, or one call of translate_text with a reference.

\* Longest hypothesis and reference enumerated.
MaxMetricLen == 2

MetricAlphabet == {" ", "a", DevaNa}

MetricStrings == StringsUpTo(MetricAlphabet, MaxMetricLen)

InitMetric ==
    /\ _pipelines = EmptyCache
    /\ environ = [k \in Keys |-> None]
    /\ localfs = [k \in Keys |-> AbsentPath]
    /\ _NLTK_OK \in BOOLEAN
    /\ _HAS_GOOGLETRANS = TRUE
    /\ _HAS_GOOGLE = TRUE
    /\ eval_csv = None
    /\ loads = [k \in Keys |-> 0]
    /\ call = NoCall
    /\ NoUI

\* The process state after a call of evaluate_translation that ended as `e`.
Evaluated(e, hypothesis, reference, meteor_raises) ==
    /\ call' = [op |-> "evaluate", hypothesis |-> hypothesis, reference |-> reference,
                meteor_raises |-> meteor_raises, metrics |-> e.metrics, trace |-> e.trace]
    /\ UNCHANGED <<_pipelines, environ, localfs, _NLTK_OK, _HAS_GOOGLETRANS, _HAS_GOOGLE,
                   eval_csv, loads,
                   hist_csv, completed, session>>

EvaluateCall ==
    /\ call = NoCall
    /\ \E hypothesis \in MetricStrings, reference \in {None} \cup {Some(t) : t \in MetricStrings},
          meteor_raises \in BOOLEAN :
            Evaluated(evaluate_translation(hypothesis, reference, _NLTK_OK, meteor_raises),
                      hypothesis, reference, meteor_raises)

TranslateWithReference ==
    /\ call = NoCall
    /\ \E text \in {<<"p", "a">>, <<"a", "a", "p">>},
          source_lang \in Range(SUPPORTED_LANGUAGES), target_lang \in Range(SUPPORTED_LANGUAGES),
          reference \in {None} \cup {Some(t) : t \in MetricStrings},
          meteor_raises \in BOOLEAN :
            TranslateCall(text, source_lang, target_lang, FALSE, reference, {}, meteor_raises)

NextMetric == EvaluateCall \/ TranslateWithReference

SpecMetric == InitMetric /\ [][NextMetric]_vars

\* ------------------------------------------ comparison specification
\* A fresh process, with or without googletrans, makes one call of
\* compare_to_google or one run of the batch evaluator.

\* Most rows of an evaluation input.
MaxRows == 2

CompareTexts == {<<" ">>, <<"p", "a">>}

\* Rows of an evaluation input: a direct pair, a pivot pair, an unsupported
\* target; a blank or a non-blank text; without or with a reference.
RowPairs == {<<"English", "Hindi">>, <<"Hindi", "Marathi">>, <<"English", "Spanish">>}

InputRows ==
    {[source_lang |-> p[1], target_lang |-> p[2], src_text |-> t, ref_text |-> r] :
        p \in RowPairs, t \in CompareTexts, r \in {<<>>, <<DevaNa>>}}

RowSeqs == StringsUpTo(InputRows, MaxRows)

InitCompare ==
    /\ _pipelines = EmptyCache
    /\ environ = [k \in Keys |-> None]
    /\ localfs = [k \in Keys |-> AbsentPath]
    /\ _NLTK_OK = TRUE
    /\ _HAS_GOOGLETRANS \in BOOLEAN
    /\ _HAS_GOOGLE \in BOOLEAN
    /\ eval_csv = None
    /\ loads = [k \in Keys |-> 0]
    /\ call = NoCall
    /\ NoUI

\* The process state after a call of compare_to_google that ended as `c`.
ComparedCall(c, request) ==
    /\ _HAS_GOOGLETRANS' = c.has
    /\ call' = [op |-> "compare", text |-> request.text,
                source_lang |-> request.source_lang, target_lang |-> request.target_lang,
                our_translation |-> request.our_translation,
                import_ok |-> request.import_ok, request_ok |-> request.request_ok,
                had |-> _HAS_GOOGLETRANS, result |-> c.result]
    /\ UNCHANGED <<_pipelines, environ, localfs, _NLTK_OK, _HAS_GOOGLE, eval_csv, loads,
                   hist_csv, completed, session>>

CompareCall ==
    /\ call = NoCall
    /\ \E request \in [text : CompareTexts, source_lang : LanguageNames,
                       target_lang : LanguageNames, our_translation : {<<>>, <<"x">>},
                       import_ok : BOOLEAN, request_ok : BOOLEAN] :
        ComparedCall(compare_to_google(request.text, request.source_lang,
                                       request.target_lang, request.our_translation,
                                       _HAS_GOOGLETRANS, request.import_ok,
                                       request.request_ok),
                     request)

\* Mutant of Ran: the rows are appended to the report of the earlier run.
RanAppending(fin, rows, o) ==
    /\ _pipelines' = fin.cache
    /\ _HAS_GOOGLETRANS' = fin.has
    /\ eval_csv' = IF ~fin.ok THEN eval_csv
                   ELSE IF eval_csv.some
                   THEN Some(WrittenFile(eval_csv.val.rows \o fin.outputs))
                   ELSE Some(WrittenFile(fin.outputs))
    /\ loads' = [k \in Keys |-> IF fin.cache[k] # _pipelines[k] THEN loads[k] + 1
                                ELSE loads[k]]
    /\ call' = [op |-> "evaluate_main", rows |-> rows, ok |-> fin.ok,
                raised_by |-> fin.raised_by, import_ok |-> o.import_ok,
                failing |-> o.failing, scorer_raises |-> o.scorer_raises,
                had |-> _HAS_GOOGLETRANS, before |-> eval_csv, bad |-> o.bad,
                cache_before |-> _pipelines]
    /\ UNCHANGED <<environ, localfs, _NLTK_OK, _HAS_GOOGLE,
                   hist_csv, completed, session>>

\* Mutant of Ran: the output file is opened before the rows are translated
\* and each row is written as soon as it is complete.
RanWritingAsItGoes(fin, rows, o) ==
    /\ _pipelines' = fin.cache
    /\ _HAS_GOOGLETRANS' = fin.has
    /\ eval_csv' = Some(WrittenFile(fin.outputs))
    /\ loads' = [k \in Keys |-> IF fin.cache[k] # _pipelines[k] THEN loads[k] + 1
                                ELSE loads[k]]
    /\ call' = [op |-> "evaluate_main", rows |-> rows, ok |-> fin.ok,
                raised_by |-> fin.raised_by, import_ok |-> o.import_ok,
                failing |-> o.failing, scorer_raises |-> o.scorer_raises,
                had |-> _HAS_GOOGLETRANS, before |-> eval_csv, bad |-> o.bad,
                cache_before |-> _pipelines]
    /\ UNCHANGED <<environ, localfs, _NLTK_OK, _HAS_GOOGLE,
                   hist_csv, completed, session>>

\* The process state after a run of the batch evaluator that ended as `fin`:
\* the output file is written only by a run that did not raise.
Ran(fin, rows, o) ==
    /\ _pipelines' = fin.cache
    /\ _HAS_GOOGLETRANS' = fin.has
    /\ eval_csv' = IF fin.ok THEN Some(WrittenFile(fin.outputs)) ELSE eval_csv
    /\ loads' = [k \in Keys |-> IF fin.cache[k] # _pipelines[k] THEN loads[k] + 1
                                ELSE loads[k]]
    /\ call' = [op |-> "evaluate_main", rows |-> rows, ok |-> fin.ok,
                raised_by |-> fin.raised_by, import_ok |-> o.import_ok,
                failing |-> o.failing, scorer_raises |-> o.scorer_raises,
                had |-> _HAS_GOOGLETRANS, before |-> eval_csv, bad |-> o.bad,
                cache_before |-> _pipelines]
    /\ UNCHANGED <<environ, localfs, _NLTK_OK, _HAS_GOOGLE,
                   hist_csv, completed, session>>

\* The circumstances of a run: what the process and the outside world are.
Circumstances(import_ok, failing, scorer_raises) ==
    [env |-> environ, fs |-> localfs, bad |-> {}, nltk_ok |-> _NLTK_OK,
     meteor_raises |-> FALSE, has_google |-> _HAS_GOOGLE, import_ok |-> import_ok,
     failing |-> failing, scorer_raises |-> scorer_raises]

EvaluateRun ==
    /\ call = NoCall
    /\ \E rows \in RowSeqs, import_ok \in BOOLEAN, scorer_raises \in BOOLEAN :
        \E failing \in SUBSET DOMAIN rows :
            Ran(evaluate_main(rows, _pipelines, _HAS_GOOGLETRANS,
                              Circumstances(import_ok, failing, scorer_raises)),
                rows, Circumstances(import_ok, failing, scorer_raises))

NextCompare == CompareCall \/ EvaluateRun

SpecCompare == InitCompare /\ [][NextCompare]_vars

\* ----------------------------------------------- report specification
\* The batch evaluator is run again and again in one process on input files
\* of any content: rows that translate by transliteration or by a model, and
\* a row naming an unsupported language.
ReportRows ==
    {[source_lang |-> "English", target_lang |-> "Hindi", src_text |-> <<"p", "a">>,
      ref_text |-> <<DevaNa>>],
     [source_lang |-> "Hindi", target_lang |-> "English", src_text |-> <<DevaNa>>,
      ref_text |-> <<>>],
     [source_lang |-> "English", target_lang |-> "Spanish", src_text |-> <<"p", "a">>,
      ref_text |-> <<>>]}

ReportSeqs == StringsUpTo(ReportRows, MaxRows)

\* The loads that fail during a run: none, or that of the Hindi-to-English
\* model while it is not cached.
ReportBad == {{}} \cup {{k} : k \in {c \in {<<"hi", "en">>} : ~_pipelines[c].some}}

\* The circumstances of a run in which the loads of `bad` fail.
ReportCircumstances(bad, scorer_raises) ==
    [Circumstances(TRUE, {}, scorer_raises) EXCEPT !.bad = bad]

InitReport ==
    /\ _pipelines = EmptyCache
    /\ environ = [k \in Keys |-> None]
    /\ localfs = [k \in Keys |-> AbsentPath]
    /\ _NLTK_OK = TRUE
    /\ _HAS_GOOGLETRANS = TRUE
    /\ _HAS_GOOGLE = TRUE
    /\ eval_csv = None
    /\ loads = [k \in Keys |-> 0]
    /\ call = NoCall
    /\ NoUI

\* One run of main(in_path, out_path) on an input file holding `rows`.
RunMain ==
    \E rows \in ReportSeqs, scorer_raises \in BOOLEAN : \E bad \in ReportBad :
        Ran(evaluate_main(rows, _pipelines, _HAS_GOOGLETRANS,
                          ReportCircumstances(bad, scorer_raises)),
            rows, ReportCircumstances(bad, scorer_raises))

NextReport == RunMain

SpecReport == InitReport /\ [][NextReport]_vars

\* --------------------------------------------------- UI specification
\* One UI session: the Translate and Evaluate buttons are clicked one after
\* another, each handler running to its end.

\* Most translations completed in a run of the model.
MaxHistory == 2

\* Texts typed into the source box: blank, a word, the word "NA".
UITexts == {<<" ">>, <<"p", "a">>, <<"N", "A">>}

UIRefs == {<<>>, <<DevaNa>>}

\* Choices of the two select boxes.
UIPairs == {<<"English", "Hindi">>, <<"Hindi", "English">>, <<"Hindi", "Hindi">>}

\* The widget values a click of Translate finds.
Widgets ==
    {[input_text |-> t, source_lang |-> p[1], target_lang |-> p[2],
      use_translit |-> u, ref_text |-> r] :
        t \in UITexts, p \in UIPairs, u \in BOOLEAN, r \in UIRefs}

\* The loads that fail during a click: none, or that of the pair's model
\* while it is not cached.
UIBad(w) ==
    {{}} \cup {{k} : k \in {c \in {<<LANG_CODE[w.source_lang], LANG_CODE[w.target_lang]>>} :
                                c[1] # c[2] /\ ~_pipelines[c].some}}

InitUI ==
    /\ _pipelines = EmptyCache
    /\ environ = [k \in Keys |-> None]
    /\ localfs = [k \in Keys |-> AbsentPath]
    /\ _NLTK_OK = TRUE
    /\ _HAS_GOOGLETRANS = TRUE
    /\ _HAS_GOOGLE = TRUE
    /\ eval_csv = None
    /\ loads = [k \in Keys |-> 0]
    /\ call = NoCall
    /\ NoUI

\* The line of the history a completed translation stands for.
CompletedRow(w, translation) ==
    [source_lang |-> w.source_lang, target_lang |-> w.target_lang,
     src_text |-> w.input_text, ref_text |-> w.ref_text, our_translation |-> translation]

\* Lines 118-121: the handler warns and translates nothing.
NotTranslated(w, outcome) ==
    /\ call' = [op |-> "ui_translate", w |-> w, outcome |-> outcome,
                hist_before |-> hist_csv]
    /\ UNCHANGED <<_pipelines, environ, localfs, _NLTK_OK, _HAS_GOOGLETRANS, _HAS_GOOGLE,
                   eval_csv, loads, hist_csv, completed, session>>

\* Lines 166-167: translate_text raised; the handler shows the error.
TranslationFailed(r, w) ==
    /\ _pipelines' = r.cache
    /\ loads' = [k \in Keys |-> loads[k] + LoadsOf(r.trace, k)]
    /\ call' = [op |-> "ui_translate", w |-> w, outcome |-> "failed",
                hist_before |-> hist_csv]
    /\ UNCHANGED <<environ, localfs, _NLTK_OK, _HAS_GOOGLETRANS, _HAS_GOOGLE,
                   eval_csv, hist_csv, completed, session>>

\* Lines 126-165: the translation is shown, compared (`c`) and logged.
Logged(r, w, c) ==
    /\ _pipelines' = r.cache
    /\ loads' = [k \in Keys |-> loads[k] + LoadsOf(r.trace, k)]
    /\ _HAS_GOOGLETRANS' = c.has
    /\ hist_csv' = AppendHistory(hist_csv, df_row(w, r.out.translation))
    /\ completed' = Append(completed, CompletedRow(w, r.out.translation))
    /\ call' = [op |-> "ui_translate", w |-> w, outcome |-> "logged",
                hist_before |-> hist_csv]
    /\ UNCHANGED <<environ, localfs, _NLTK_OK, _HAS_GOOGLE, eval_csv, session>>

\* Lines 124-167: translate_text ended as `r`.
Translated(r, w) ==
    IF r.out.kind = "raise" THEN TranslationFailed(r, w)
    ELSE Logged(r, w, compare_to_google(w.input_text, w.source_lang, w.target_lang,
                                        r.out.translation, _HAS_GOOGLETRANS, TRUE, TRUE))

\* Lines 117-167: the handler of the Translate button on widget values `w`,
\* where the loads of `bad` fail.
TranslateHandler(w, bad) ==
    IF strip(w.input_text, Whitespace) = <<>> THEN NotTranslated(w, "blank")
    ELSE IF w.source_lang = w.target_lang THEN NotTranslated(w, "same")
    ELSE Translated(translate_text(w.input_text, w.source_lang, w.target_lang,
                                   w.use_translit, Some(w.ref_text), _pipelines, environ,
                                   localfs, bad, _NLTK_OK, FALSE), w)

TranslateClick ==
    /\ Len(completed) < MaxHistory
    /\ \E w \in Widgets : \E bad \in UIBad(w) : TranslateHandler(w, bad)

\* Lines 92-93 and 181-182: there is no history file yet.
NoHistoryYet ==
    /\ call' = [op |-> "ui_evaluate", outcome |-> "no history"]
    /\ UNCHANGED <<_pipelines, environ, localfs, _NLTK_OK, _HAS_GOOGLETRANS, _HAS_GOOGLE,
                   eval_csv, loads, hist_csv, completed, session>>

\* Lines 91-100 and 180-189: the handler of either Evaluate button; the
\* evaluator is run on the history file in the UI's process.
EvaluateClick ==
    IF ~hist_csv.some THEN NoHistoryYet
    ELSE \E scorer_raises \in BOOLEAN :
            Ran(evaluate_main(HistoryInput(hist_csv.val), _pipelines, _HAS_GOOGLETRANS,
                              Circumstances(TRUE, {}, scorer_raises)),
                HistoryInput(hist_csv.val), Circumstances(TRUE, {}, scorer_raises))

NextUI == TranslateClick \/ EvaluateClick

SpecUI == InitUI /\ [][NextUI]_vars

\* --------------------------------------------- sessions specification
\* Two UI sessions of the same process run the Translate handler at the same
\* time; the steps of the history append (lines 157-162) of the two handlers
\* interleave.

\* Most appends begun in a run of the model.
MaxAppends == 3

SessionTexts == {<<"p", "a">>, <<"a">>}

\* The widget values of a session that translates `text`.
SessionWidgets(text) ==
    [input_text |-> text, source_lang |-> "Hindi", target_lang |-> "English",
     use_translit |-> FALSE, ref_text |-> <<>>]

\* The number of sessions whose handler is running.
Running == Cardinality({s \in Sessions : session[s].pc # "idle"})

InitSessions ==
    /\ _pipelines = EmptyCache
    /\ environ = [k \in Keys |-> None]
    /\ localfs = [k \in Keys |-> AbsentPath]
    /\ _NLTK_OK = TRUE
    /\ _HAS_GOOGLETRANS = TRUE
    /\ _HAS_GOOGLE = TRUE
    /\ eval_csv = None
    /\ loads = [k \in Keys |-> 0]
    /\ call = NoCall
    /\ NoUI

\* Lines 125-157 in session s: the translation `r` is shown and compared, the
\* row is built and HIST_CSV.exists() is tested.
Reached(s, r, w) ==
    /\ _pipelines' = r.cache
    /\ loads' = [k \in Keys |-> loads[k] + LoadsOf(r.trace, k)]
    /\ session' = [session EXCEPT ![s] =
                     [pc |-> IF hist_csv.some THEN "read" ELSE "write",
                      row |-> df_row(w, r.out.translation),
                      line |-> CompletedRow(w, r.out.translation),
                      df |-> <<>>]]
    /\ call' = [op |-> "begin", s |-> s]
    /\ UNCHANGED <<environ, localfs, _NLTK_OK, _HAS_GOOGLETRANS, _HAS_GOOGLE, eval_csv,
                   hist_csv, completed>>

\* Session s clicks Translate; its handler runs up to the history append.
Begin(s) ==
    /\ session[s].pc = "idle"
    /\ Len(completed) + Running < MaxAppends
    /\ \E text \in SessionTexts :
        Reached(s, translate_text(text, "Hindi", "English", FALSE, Some(<<>>), _pipelines,
                                  environ, localfs, {}, _NLTK_OK, FALSE),
                SessionWidgets(text))

\* Lines 158-159 in session s: the history is read and the row concatenated.
ReadHistory(s) ==
    /\ session[s].pc = "read"
    /\ session' = [session EXCEPT ![s].pc = "write",
                                  ![s].df = concat(read_csv(hist_csv.val), session[s].row)]
    /\ call' = [op |-> "read", s |-> s]
    /\ UNCHANGED <<_pipelines, environ, localfs, _NLTK_OK, _HAS_GOOGLETRANS, _HAS_GOOGLE,
                   eval_csv, loads, hist_csv, completed>>

\* Lines 160 and 162 in session s: the file is rewritten with the frame the
\* session holds, or written with the row alone when no file was found.
WriteHistory(s) ==
    /\ session[s].pc = "write"
    /\ hist_csv' = Some(to_csv(IF session[s].df # <<>> THEN session[s].df
                               ELSE session[s].row))
    /\ completed' = Append(completed, session[s].line)
    /\ session' = [session EXCEPT ![s] = Idle]
    /\ call' = [op |-> "write", s |-> s]
    /\ UNCHANGED <<_pipelines, environ, localfs, _NLTK_OK, _HAS_GOOGLETRANS, _HAS_GOOGLE,
                   eval_csv, loads>>

NextSessions == \E s \in Sessions : Begin(s) \/ ReadHistory(s) \/ WriteHistory(s)

SpecSessions == InitSessions /\ [][NextSessions]_vars

\* ------------------------------------------------ claims on the facade
SupportedNames == {"English", "Hindi", "Marathi"}

\* The text has a character that is not whitespace.
NonBlankText(text) == \E i \in DOMAIN text : text[i] \notin Whitespace

\* The last call used the model router / the transliteration adapter.
RouterUsed == Events(call.trace, "get_pipeline") # {}

ModelUsed == Events(call.trace, "load") # {} \/ Events(call.trace, "nlp") # {}

TransliterationUsed == Events(call.trace, "transliterate") # {}

AllMetricsAbsent(out) ==
    /\ out.metrics.bleu = None
    /\ out.metrics.ter = None
    /\ out.metrics.meteor = None

\* Some whitespace-delimited token of the text, once its surrounding punctuation
\* is removed and it is case-folded, is a word of the hint vocabulary.
HasHintToken(text) ==
    \E i \in DOMAIN text : \E j \in i..Len(text) :
        /\ \A k \in i..j : text[k] \notin Whitespace
        /\ (i = 1 \/ text[i - 1] \in Whitespace)
        /\ (j = Len(text) \/ text[j + 1] \in Whitespace)
        /\ \E a \in i..j : \E b \in a..j :
            /\ \A k \in i..(a - 1) : text[k] \in Punctuation
            /\ \A k \in (b + 1)..j : text[k] \in Punctuation
            /\ lower(SubSeq(text, a, b)) \in _ROMANIZED_HINTS

\* The condition under which C4 places a call on the transliteration path.
TransliterationCase ==
    /\ call.source_lang = "English"
    /\ call.target_lang \in {"Hindi", "Marathi"}
    /\ isascii(call.text)
    /\ (call.use_transliteration \/ HasHintToken(call.text))

\* C1 as stated: with an unsupported source or target language translate fails
\* with the unsupported-language error for every text, and loads no model.
CxC1_UnsupportedEveryText ==
    (call.op = "translate"
     /\ (call.source_lang \notin SupportedNames \/ call.target_lang \notin SupportedNames))
    => /\ call.out = Raise("ValueError")
       /\ ~RouterUsed /\ ~ModelUsed
       /\ _pipelines = call.before

\* C1 (amended): with an unsupported source or target language translate fails
\* with the unsupported-language error for every text that is not blank, returns
\* the empty result for a blank text, and in both cases loads no model and
\* leaves the model cache unchanged.
ThmC1_UnsupportedNonBlank ==
    (call.op = "translate"
     /\ (call.source_lang \notin SupportedNames \/ call.target_lang \notin SupportedNames))
    => /\ NonBlankText(call.text) => call.out = Raise("ValueError")
       /\ ~NonBlankText(call.text) =>
            (call.out.kind = "return" /\ call.out.translation = <<>>)
       /\ ~RouterUsed /\ ~ModelUsed
       /\ _pipelines = call.before

WitC1_UnsupportedTarget ==
    /\ call.op = "translate"
    /\ call.source_lang = "English" /\ call.target_lang = "Spanish"
    /\ call.text = <<"a", "p">>
    /\ call.out = Raise("ValueError")

\* C2: translate of an empty or whitespace-only text returns the empty string
\* with bleu, ter and meteor absent, whatever the languages, the transliteration
\* flag and the reference are, without using the router, the transliteration
\* adapter or the metric adapter, and with the model cache unchanged.
ThmC2_BlankText ==
    (call.op = "translate" /\ ~NonBlankText(call.text))
    => /\ call.out.kind = "return"
       /\ call.out.translation = <<>>
       /\ AllMetricsAbsent(call.out)
       /\ call.trace = <<>>
       /\ _pipelines = call.before

WitC2_WhitespaceWithFlagAndReference ==
    /\ call.op = "translate"
    /\ call.text = <<" ", " ">>
    /\ call.source_lang = "English" /\ call.target_lang = "Hindi"
    /\ call.use_transliteration
    /\ call.reference = Some(<<DevaNa>>)
    /\ call.out.kind = "return"

\* C3: for a supported language L and a text that is not blank,
\* translate(text, L, L) returns the text unchanged with bleu, ter and meteor
\* absent, also when a reference is given, and neither loads nor invokes a model.
ThmC3_SameLanguageIdentity ==
    (call.op = "translate" /\ NonBlankText(call.text)
     /\ call.source_lang \in SupportedNames /\ call.target_lang = call.source_lang)
    => /\ call.out.kind = "return"
       /\ call.out.translation = call.text
       /\ AllMetricsAbsent(call.out)
       /\ call.trace = <<>>
       /\ _pipelines = call.before

WitC3_SameLanguageWithReference ==
    /\ call.op = "translate"
    /\ call.source_lang = "Hindi" /\ call.target_lang = "Hindi"
    /\ call.text = <<" ", "a">>
    /\ call.reference = Some(<<DevaNa>>)
    /\ call.out.kind = "return"

\* C4 as stated: translate takes the transliteration path if and only if the
\* source is English, the target Hindi or Marathi, the text all ASCII, and the
\* flag is set or a token is in the hint vocabulary.
CxC4_TransliterationIffAnyText ==
    call.op = "translate" => (TransliterationUsed <=> TransliterationCase)

\* C4 (amended): for a text that is not blank, translate takes the
\* transliteration path if and only if the source is English, the target Hindi
\* or Marathi, the text all ASCII, and the flag is set or a token is in the hint
\* vocabulary; on that path model_name contains "transliteration" and no model
\* is loaded or invoked; in every other case with distinct supported languages
\* the model router is used.
ThmC4_TransliterationIffNonBlank ==
    (call.op = "translate" /\ NonBlankText(call.text))
    => /\ TransliterationUsed <=> TransliterationCase
       /\ TransliterationUsed =>
            /\ call.out.kind = "return"
            /\ call.out.model_name.some
            /\ Contains(call.out.model_name.val, <<"transliteration">>)
            /\ ~RouterUsed /\ ~ModelUsed
            /\ _pipelines = call.before
       /\ (/\ ~TransliterationCase
           /\ call.source_lang \in SupportedNames /\ call.target_lang \in SupportedNames
           /\ call.source_lang # call.target_lang) => RouterUsed

WitC4_HintWithoutFlag ==
    /\ call.op = "translate"
    /\ call.source_lang = "English" /\ call.target_lang = "Marathi"
    /\ ~call.use_transliteration
    /\ call.text = <<"A", "a", "p", "!">>
    /\ TransliterationUsed

\* C8: every result translate returns has a metrics mapping with exactly the
\* keys bleu, ter and meteor, each a float or absent; without a reference, or
\* with a blank one, all three are absent.
ThmC8_MetricsKeys ==
    (call.op = "translate" /\ call.out.kind = "return")
    => /\ DOMAIN call.out.metrics = {"bleu", "ter", "meteor"}
       /\ \A k \in DOMAIN call.out.metrics :
            \/ call.out.metrics[k] = None
            \/ (call.out.metrics[k].some /\ call.out.metrics[k].val \in Int)
       /\ (\/ call.reference = None
           \/ ~NonBlankText(call.reference.val)) => AllMetricsAbsent(call.out)

WitC8_PivotWithReference ==
    /\ call.op = "translate"
    /\ call.source_lang = "Hindi" /\ call.target_lang = "Marathi"
    /\ call.reference = Some(<<DevaNa>>)
    /\ call.out.kind = "return"
    /\ call.out.metrics.bleu.some
    /\ Cardinality(Events(call.trace, "nlp")) = 2

\* ------------------------------------------------ claims on the router
TablePairs == {<<"en", "hi">>, <<"hi", "en">>, <<"en", "mr">>, <<"mr", "en">>}

\* The directory of the pair exists and holds a recognized model artifact.
LocalDirValid(k) ==
    /\ localfs[k].exists /\ localfs[k].is_dir
    /\ localfs[k].files \cap {"config.json", "pytorch_model.bin", "model.safetensors"} # {}

LocalDirName(k) == <<"<LOCAL_MODEL_ROOT>/", k[1], "-", k[2]>>

TableName(k) == <<"Helsinki-NLP/opus-mt-", k[1], "-", k[2]>>

\* The override of the pair is set (to any value, also the empty string).
OverrideSet(k) == environ[k] # None

\* The override of the pair is set and names a model location.
OverrideNames(k) == environ[k] # None /\ environ[k].val # <<>>

\* The load events of the last call: each names the key and the model loaded.
LoadEvents == Events(call.trace, "load")

\* The load at position i of the trace took the model `name`: it was loaded,
\* stored for the key and returned by the router as the model's name.
Resolved(i, name) ==
    /\ call.trace[i].name = name
    /\ _pipelines[call.trace[i].key] = Some(Handle(name))
    /\ call.trace[i - 1].ev = "get_pipeline"
    /\ call.trace[i - 1].key = call.trace[i].key
    /\ call.trace[i - 1].name = name

\* C5 as stated: a load takes the override if it is set, otherwise the local
\* directory if it is valid, otherwise the table entry.
CxC5_OverrideIfSet ==
    call.op = "translate" =>
        \A i \in LoadEvents :
            LET k == call.trace[i].key
            IN  IF OverrideSet(k) THEN Resolved(i, environ[k].val)
                ELSE IF LocalDirValid(k) THEN Resolved(i, LocalDirName(k))
                ELSE k \in TablePairs => Resolved(i, TableName(k))

\* C5 (amended): when the router loads the model of a pair it takes the
\* per-pair environment override if that is set to a non-empty value, otherwise
\* the local fine-tuned directory if it exists and holds a recognized artifact,
\* otherwise the table entry; the model loaded and the name returned by that
\* call are those of the first matching source.
ThmC5_ResolutionOrder ==
    call.op = "translate" =>
        \A i \in LoadEvents :
            LET k == call.trace[i].key
            IN  IF OverrideNames(k) THEN Resolved(i, environ[k].val)
                ELSE IF LocalDirValid(k) THEN Resolved(i, LocalDirName(k))
                ELSE k \in TablePairs => Resolved(i, TableName(k))

WitC5_OverrideBeatsLocalAndTable ==
    /\ call.op = "translate"
    /\ OverrideNames(<<"en", "hi">>) /\ LocalDirValid(<<"en", "hi">>)
    /\ \E i \in LoadEvents : call.trace[i].key = <<"en", "hi">>
    /\ _pipelines[<<"en", "hi">>] = Some(Handle(environ[<<"en", "hi">>].val))

\* The first "nlp" event after position i of the trace.
NextNlp(trace, i) ==
    LET later == {j \in Events(trace, "nlp") : j > i}
    IN  trace[CHOOSE j \in later : \A j2 \in later : j <= j2]

\* A step keeps every cached handle, loads only keys it routes, loads a key
\* only while it is not cached, and serves a cached key from the cache.
CacheStep ==
    \A k \in Keys :
        /\ _pipelines[k].some => _pipelines'[k] = _pipelines[k]
        /\ loads'[k] <= 1
        /\ _pipelines'[k] # _pipelines[k] =>
            /\ call'.op = "translate"
            /\ loads[k] = 0 /\ loads'[k] = 1
            /\ \E i \in Events(call'.trace, "get_pipeline") : call'.trace[i].key = k
        /\ (call'.op = "translate" /\ _pipelines[k].some) =>
            \A i \in Events(call'.trace, "get_pipeline") :
                call'.trace[i].key = k =>
                    /\ call'.trace[i].hit
                    /\ NextNlp(call'.trace, i).nlp = _pipelines[k].val

\* C6: the model cache is lazy, memoized and grow-only: it starts empty, a
\* handle enters it only in a call that routes its pair, each pair is loaded
\* at most once, a cached handle is never evicted or replaced (also when the
\* override or the local directory changes), and a later call for the pair
\* uses the cached handle.
ThmC6_CacheGrowOnly ==
    /\ [](\A k \in Keys : _pipelines[k].some <=> loads[k] = 1)
    /\ [][CacheStep]_vars

WitC6_HitAfterOverrideChange ==
    /\ call.op = "translate"
    /\ environ[<<"en", "hi">>] = Some(<<"/finetuned/", "en", "_", "hi">>)
    /\ _pipelines[<<"en", "hi">>] = Some(Handle(TableName(<<"en", "hi">>)))
    /\ \E i \in Events(call.trace, "get_pipeline") :
        call.trace[i].key = <<"en", "hi">> /\ call.trace[i].hit

\* A model can be resolved for the pair itself.
DirectModelExists(k) == k \in TablePairs \/ OverrideNames(k) \/ LocalDirValid(k)

IsNlp(e) == e.ev = "nlp"

IsRouting(e) == e.ev = "get_pipeline"

\* The router events and the model invocations of the last call, in order.
Routings == SelectSeq(call.trace, IsRouting)

Invocations == SelectSeq(call.trace, IsNlp)

\* In the trace the first invocation comes before the second routing.
FirstHopBeforeSecond ==
    \E i \in Events(call.trace, "nlp") : \E j \in Events(call.trace, "get_pipeline") :
        /\ i < j
        /\ call.trace[j].key[1] = "en"

\* C7: when the pair has no direct model, translate invokes the src->en model
\* on the input, then the en->tgt model on the first hop's output, returns the
\* second hop's output and reports the two names the router returned, joined
\* by " + " in hop order; when a direct model exists exactly one model is
\* invoked and model_name is the one name the router returned.
ThmC7_PivotThroughEnglish ==
    (call.op = "translate" /\ call.out.kind = "return" /\ RouterUsed) =>
        LET k == <<LANG_CODE[call.source_lang], LANG_CODE[call.target_lang]>>
        IN  IF DirectModelExists(k)
            THEN /\ Len(Routings) = 1 /\ Len(Invocations) = 1
                 /\ Routings[1].key = k
                 /\ Invocations[1].nlp = _pipelines[k].val
                 /\ Invocations[1].input = call.text
                 /\ call.out.translation = Infer(Invocations[1].nlp, call.text)
                 /\ call.out.model_name = Some(Routings[1].name)
            ELSE /\ Len(Routings) = 2 /\ Len(Invocations) = 2
                 /\ Routings[1].key = <<k[1], "en">>
                 /\ Routings[2].key = <<"en", k[2]>>
                 /\ FirstHopBeforeSecond
                 /\ Invocations[1].nlp = _pipelines[<<k[1], "en">>].val
                 /\ Invocations[1].input = call.text
                 /\ Invocations[2].nlp = _pipelines[<<"en", k[2]>>].val
                 /\ Invocations[2].input = Infer(Invocations[1].nlp, call.text)
                 /\ call.out.translation = Infer(Invocations[2].nlp, Invocations[2].input)
                 /\ call.out.model_name =
                        Some(Routings[1].name \o <<" + ">> \o Routings[2].name)

WitC7_HindiToMarathi ==
    /\ call.op = "translate"
    /\ call.source_lang = "Hindi" /\ call.target_lang = "Marathi"
    /\ call.out.kind = "return"
    /\ call.out.model_name =
        Some(<<"Helsinki-NLP/opus-mt-", "hi", "-", "en", " + ",
               "Helsinki-NLP/opus-mt-", "en", "-", "mr">>)

\* ---------------------------------------- claims on the metric adapter
\* The scorers that ran in a trace.
ScorersRun(trace) ==
    {n \in {"bleu", "ter", "meteor"} : Events(trace, n) # {}}

IsFloat(v) == v.some /\ v.val \in Int

\* What C9 says of the metrics computed for a reference.
MetricsAsClaimed(metrics, trace, reference, meteor_raises) ==
    IF reference = None \/ ~NonBlankText(reference.val)
    THEN /\ metrics.bleu = None /\ metrics.ter = None /\ metrics.meteor = None
         /\ ScorersRun(trace) = {}
    ELSE /\ IsFloat(metrics.bleu) /\ IsFloat(metrics.ter)
         /\ IF _NLTK_OK /\ ~meteor_raises
            THEN IsFloat(metrics.meteor)
            ELSE metrics.meteor = None
         /\ ~_NLTK_OK => "meteor" \notin ScorersRun(trace)

\* C9: evaluate returns the three metrics as None for an empty or
\* whitespace-only reference and calls no scorer; for any other reference bleu
\* and ter are floats and meteor is a float exactly when nltk was imported and
\* its scorer succeeds, None otherwise; a failing METEOR scorer fails neither
\* evaluate nor the enclosing translate.
ThmC9_MetricsDegrade ==
    /\ call.op = "evaluate" =>
        MetricsAsClaimed(call.metrics, call.trace, call.reference, call.meteor_raises)
    /\ (call.op = "translate" /\ call.source_lang # call.target_lang) =>
        /\ call.out.kind = "return"
        /\ Events(call.trace, "evaluate") # {}
        /\ MetricsAsClaimed(call.out.metrics, call.trace, call.reference, call.meteor_raises)

WitC9_MeteorScorerFails ==
    /\ call.op = "translate"
    /\ _NLTK_OK /\ call.meteor_raises
    /\ call.reference = Some(<<DevaNa>>)
    /\ call.out.kind = "return"
    /\ IsFloat(call.out.metrics.bleu)
    /\ call.out.metrics.meteor = None

\* ------------------------------------ claims on the comparison adapter
ServiceLanguages == {"English", "Hindi", "Marathi"}

ServiceCode(l) == IF l = "English" THEN "en" ELSE IF l = "Hindi" THEN "hi" ELSE "mr"

\* The service answers: the dependency is there, both languages have a
\* service code, and the request succeeds.
ServiceAnswers(had, import_ok, source_lang, target_lang, request_ok) ==
    /\ had \/ import_ok
    /\ source_lang \in ServiceLanguages
    /\ target_lang \in ServiceLanguages
    /\ request_ok

ServiceTranslation(text, source_lang, target_lang) ==
    <<"[google ", ServiceCode(source_lang), ">", ServiceCode(target_lang), "]">> \o text

\* The row's call of translate_text returns: the text is blank or both
\* languages are supported.
RowTranslates(row) ==
    \/ \A i \in DOMAIN row.src_text : row.src_text[i] = " "
    \/ {row.source_lang, row.target_lang} \subseteq SupportedNames

RunCompletes(rows, scorer_raises) ==
    /\ \A i \in DOMAIN rows : RowTranslates(rows[i])
    /\ ~(scorer_raises /\ \E i \in DOMAIN rows : rows[i].ref_text = <<DevaNa>>)

RowServiceAnswers(c, i) ==
    /\ _HAS_GOOGLE
    /\ ServiceAnswers(c.had, c.import_ok, c.rows[i].source_lang, c.rows[i].target_lang,
                      i \notin c.failing)

RowWritten(c, i, written) ==
    /\ written.source_lang = c.rows[i].source_lang
    /\ written.target_lang = c.rows[i].target_lang
    /\ written.src_text = c.rows[i].src_text
    /\ written.ref_text = c.rows[i].ref_text
    /\ IF RowServiceAnswers(c, i)
       THEN written.google_translation =
                ServiceTranslation(c.rows[i].src_text, c.rows[i].source_lang,
                                   c.rows[i].target_lang)
       ELSE /\ written.google_translation # <<>>
            /\ written.google_translation[1] \in {"unavailable", "unavailable: "}

\* C10: compare_to_google always returns a mapping with exactly the keys
\* ours and google; ours is our_translation unchanged, and google is the
\* service's translation when the service answers and otherwise a string
\* beginning "Google Translate unavailable: " (missing dependency, request
\* error, language without a service code).  In the batch evaluator whether
\* the run completes does not depend on the service: it completes exactly
\* when every row translates and the corpus scorers do not raise, and then
\* every input row is written, a row whose service call failed with a
\* google_translation beginning "unavailable".
ThmC10_ServiceFailureNotFatal ==
    /\ call.op = "compare" =>
        /\ DOMAIN call.result = {"ours", "google"}
        /\ call.result.ours = call.our_translation
        /\ IF ServiceAnswers(call.had, call.import_ok, call.source_lang,
                             call.target_lang, call.request_ok)
           THEN call.result.google =
                    ServiceTranslation(call.text, call.source_lang, call.target_lang)
           ELSE /\ call.result.google # <<>>
                /\ call.result.google[1] = "Google Translate unavailable: "
    /\ call.op = "evaluate_main" =>
        /\ call.ok <=> RunCompletes(call.rows, call.scorer_raises)
        /\ ~call.ok => eval_csv = call.before
        /\ call.ok =>
            /\ eval_csv.some
            /\ Len(eval_csv.val.rows) = Len(call.rows)
            /\ \A i \in DOMAIN call.rows : RowWritten(call, i, eval_csv.val.rows[i])

\* A two-row run with googletrans present where the request of the first row
\* failed and that of the second succeeded: both rows are written.
WitC10_RowWrittenDespiteServiceFailure ==
    /\ call.op = "evaluate_main"
    /\ call.ok
    /\ _HAS_GOOGLE /\ call.had
    /\ Len(call.rows) = 2
    /\ call.failing = {1}
    /\ eval_csv.some
    /\ Len(eval_csv.val.rows) = 2
    /\ eval_csv.val.rows[1].google_translation = <<"unavailable: ", "googletrans request failed: ", "error">>
    /\ eval_csv.val.rows[2].google_translation[1] = "[google "

\* --------------------------------- claims on loading and naming models
\* The pair of the last call, as codes.
CallPair == <<LANG_CODE[call.source_lang], LANG_CODE[call.target_lang]>>

\* The last call went to the models: supported distinct languages, and the
\* transliteration branch does not apply to the text "pa" without the flag.
WentToModels ==
    /\ call.op = "translate"
    /\ call.source_lang # call.target_lang
    /\ ~(call.source_lang = "English" /\ call.use_transliteration)

\* The model of key k could not be had in the last call: it was not cached
\* when the call began and its load raises.
Unloadable(k) == k \in call.bad /\ ~call.before[k].some

\* A key the last call needs cannot be loaded: the pair itself when a direct
\* model exists for it, otherwise one of the two pivot hops.
ModelUnavailable ==
    IF DirectModelExists(CallPair) THEN Unloadable(CallPair)
    ELSE Unloadable(<<CallPair[1], "en">>) \/ Unloadable(<<"en", CallPair[2]>>)

\* The key whose load failed: the last routing of the trace.
FailedKey == call.trace[Len(call.trace)].key

\* C13: when the model of the pair, or of a pivot hop, cannot be loaded, the
\* call raises and returns nothing; the failed key was routed once and not
\* loaded, nothing follows the failed routing, the cache has no entry for the
\* failed key, every entry cached before the call is kept, and a first hop
\* loaded in the call stays cached.  A call whose models can be loaded returns.
ThmC13_ModelUnavailable ==
    WentToModels =>
        /\ call.out.kind = "raise" <=> ModelUnavailable
        /\ call.out.kind = "raise" =>
            /\ DOMAIN call.out = {"kind", "exc"}
            /\ call.trace # <<>>
            /\ call.trace[Len(call.trace)].ev = "get_pipeline"
            /\ Unloadable(FailedKey)
            /\ Cardinality({i \in Events(call.trace, "get_pipeline") :
                                call.trace[i].key = FailedKey}) = 1
            /\ \A i \in Events(call.trace, "load") : call.trace[i].key # FailedKey
            /\ _pipelines[FailedKey] = None
            /\ \A k \in Keys : call.before[k].some => _pipelines[k] = call.before[k]
            /\ \A i \in Events(call.trace, "load") :
                _pipelines[call.trace[i].key] = Some([model |-> call.trace[i].name])

\* Hindi to Marathi where the English-to-Marathi model cannot be loaded: the
\* call raises, the first hop's model was loaded in it and stays cached.
WitC13_SecondHopFails ==
    /\ call.op = "translate"
    /\ call.source_lang = "Hindi" /\ call.target_lang = "Marathi"
    /\ call.bad = {<<"en", "mr">>}
    /\ call.out.kind = "raise"
    /\ ~call.before[<<"hi", "en">>].some
    /\ _pipelines[<<"hi", "en">>].some
    /\ _pipelines[<<"en", "mr">>] = None

\* C14: on a cache hit the router returns the name of the model it loaded
\* for the pair, which is the name it returned when it loaded it.
CxC14_HitNamesLoadedModel ==
    call.op = "translate" =>
        \A i \in Events(call.trace, "get_pipeline") :
            call.trace[i].hit =>
                call.trace[i].name = _pipelines[call.trace[i].key].val.model

\* The name resolved for key k is an override, a local directory or a table
\* entry.
ResolvedName(k, name) ==
    \/ OverrideNames(k) /\ name = environ[k].val
    \/ LocalDirValid(k) /\ name = LocalDirName(k)
    \/ k \in TablePairs /\ name = TableName(k)

\* C15: no routing made by translate_text has equal source and target codes,
\* and every model it loads is an override, a local directory or a table
\* entry, never the generic task translation_<src>_to_<tgt>.
ThmC15_GenericTaskUnreachable ==
    call.op = "translate" =>
        /\ \A i \in Events(call.trace, "get_pipeline") :
            call.trace[i].key[1] # call.trace[i].key[2]
        /\ \A i \in Events(call.trace, "load") :
            /\ ResolvedName(call.trace[i].key, call.trace[i].name)
            /\ call.trace[i].name # <<"translation_", call.trace[i].key[1], "_to_",
                                       call.trace[i].key[2]>>

\* Hindi to Marathi while the pair's override is set to the empty string:
\* the call pivots and loads the two table models.
WitC15_PivotLoadsTableModels ==
    /\ call.op = "translate"
    /\ call.source_lang = "Hindi" /\ call.target_lang = "Marathi"
    /\ environ[<<"hi", "mr">>] = Some(<<>>)
    /\ call.out.kind = "return"
    /\ Cardinality(Events(call.trace, "load")) = 2

\* ------------------------------------------------ claims on the report
\* The columns of the evaluation report.
ReportColumns ==
    {"source_lang", "target_lang", "src_text", "ref_text", "our_translation",
     "google_translation", "bleu", "ter", "meteor", "google_bleu", "google_ter",
     "google_meteor"}

\* Line i of the report restates row i of the input.
RestatesInput(line, row) ==
    /\ DOMAIN line = ReportColumns
    /\ line.source_lang = row.source_lang
    /\ line.target_lang = row.target_lang
    /\ line.src_text = row.src_text
    /\ line.ref_text = row.ref_text

\* C12: after a successful run over an input of N rows the report holds the
\* header of the twelve columns and exactly N lines, line i restating
\* source_lang, target_lang, src_text and ref_text of input row i; nothing of
\* the report of an earlier run is left (with N = 0 only the header).
ThmC12_ReportRegenerated ==
    (call.op = "evaluate_main" /\ call.ok) =>
        /\ eval_csv.some
        /\ eval_csv.val.fieldnames = ReportColumns
        /\ Len(eval_csv.val.rows) = Len(call.rows)
        /\ \A i \in DOMAIN call.rows : RestatesInput(eval_csv.val.rows[i], call.rows[i])

\* A successful run over an empty input after a run that wrote two lines:
\* the report is the header alone.
WitC12_EmptyInputAfterTwoRows ==
    /\ call.op = "evaluate_main" /\ call.ok
    /\ call.rows = <<>>
    /\ call.before.some
    /\ Len(call.before.val.rows) = 2
    /\ eval_csv = Some([fieldnames |-> ReportColumns, rows |-> <<>>])

\* Translating row i of the last run raises: the text is not blank and a
\* language is unsupported, or the row needs the Hindi-to-English model, which
\* is not cached and cannot be loaded.
RowRaises(row) ==
    /\ \E i \in DOMAIN row.src_text : row.src_text[i] # " "
    /\ \/ ~({row.source_lang, row.target_lang} \subseteq SupportedNames)
       \/ /\ row.source_lang = "Hindi" /\ row.target_lang = "English"
          /\ <<"hi", "en">> \in call.bad
          /\ ~call.cache_before[<<"hi", "en">>].some

\* C17: a run in which translating some row raises fails, and the report is
\* exactly what it was before the run (or still absent).
ThmC17_FailedRunKeepsReport ==
    call.op = "evaluate_main" =>
        /\ (\E i \in DOMAIN call.rows : RowRaises(call.rows[i])) =>
            /\ ~call.ok
            /\ call.raised_by = "translate_text"
        /\ ~call.ok => eval_csv = call.before

\* A run whose second row needs a model that cannot be loaded, after a run
\* that wrote a report: the report is the earlier one.
WitC17_LoadFailsAfterReport ==
    /\ call.op = "evaluate_main" /\ ~call.ok
    /\ call.raised_by = "translate_text"
    /\ Len(call.rows) = 2
    /\ call.rows[1].target_lang = "Hindi"
    /\ call.rows[2].target_lang = "English"
    /\ call.bad = {<<"hi", "en">>}
    /\ call.before.some
    /\ Len(call.before.val.rows) = 1
    /\ eval_csv = call.before

\* ----------------------------------------------- claims on the history
\* The lines of the history file, none while the file does not exist.
HistoryLines == IF hist_csv.some THEN hist_csv.val ELSE <<>>

\* C11: the history holds exactly one line for each translation the UI
\* completed, in completion order and as logged (so every earlier line is
\* still present and unchanged), and a click that completes no translation
\* (blank input, equal languages, a translation that raised) leaves the
\* history as it was.
CxC11_HistoryAppendOnly ==
    /\ HistoryLines = completed
    /\ (call.op = "ui_translate" /\ call.outcome # "logged") => hist_csv = call.hist_before

\* C16: after an evaluation of the history, the our_translation of every
\* report line equals the our_translation stored in the history line it was
\* made from.
CxC16_ReportMatchesHistory ==
    (call.op = "evaluate_main" /\ call.ok /\ hist_csv.some) =>
        \A i \in DOMAIN hist_csv.val :
            eval_csv.val.rows[i].our_translation = hist_csv.val[i].our_translation

\* No handler is in the middle of an append.
AllIdle == \A s \in Sessions : session[s].pc = "idle"

\* The line is in the history file.
InHistory(line) == \E j \in DOMAIN HistoryLines : HistoryLines[j] = line

\* C18: whatever the interleaving of the read and write steps of the
\* sessions' appends, once the appends are done the history contains the line
\* of every completed translation, those of two concurrent appends as well as
\* every earlier one.
CxC18_NoRowLost ==
    AllIdle =>
        /\ Len(HistoryLines) = Len(completed)
        /\ \A i \in DOMAIN completed : InHistory(completed[i])

====
